---- MODULE Spec2Model ----
(***************************************************************************)
(* PLCWebController (src/live_smiulation/backend.py): controller objects,   *)
(* each wrapping one Modbus client session, their background monitor loops *)
(* and the request-handler threads that call their methods concurrently.   *)
(* Every method is cut into steps at the places where it reads or writes   *)
(* shared attributes (connected, monitoring, monitor_thread, last_data) or *)
(* starts / finishes one exchange on the client session; a time.sleep is a *)
(* state of its own in which the other threads run.                        *)
(***************************************************************************)
EXTENDS Integers, Sequences, FiniteSets, TLC

\* ------------------------------------------------------------------ bounds

\* Thread objects the model lets start_monitoring create (the code: unbounded).
MaxLoops == 2
\* PLCWebController objects the model has room for.
MaxCtl == 2
\* Method calls made by the handler threads in one behaviour.
MaxCalls == 2
\* Largest `steps` argument given to adjust_parameter.
MaxSteps == 2
\* Last reading of the clock (the first is 0).
MaxTime == 1

\* ------------------------------------------------------- the point registry

coil_map ==
  [ pump |-> 0, filter |-> 1, uv_reactor |-> 2, start_button |-> 3,
    emergency_button |-> 4, low_level_sensor |-> 5, green_light |-> 6,
    orange_light |-> 7, red_light |-> 8, fault_light |-> 9, pt_alert |-> 10,
    ft_alert |-> 11, turbidity_alert |-> 12,
    pt_inc_sim |-> 16, pt_dec_sim |-> 17, ft_inc_sim |-> 18, ft_dec_sim |-> 19,
    turb_inc_sim |-> 20, turb_dec_sim |-> 21, level_inc_sim |-> 22,
    level_dec_sim |-> 23 ]

register_map ==
  [ pressure_value |-> 0, flow_value |-> 1, turbidity_value |-> 2,
    water_level |-> 3 ]

thresholds ==
  [ pt_low |-> 20, pt_high |-> 80, ft_low |-> 10, turb_high |-> 15,
    level_low |-> 20 ]

param_map ==
  [ pressure  |-> <<"pt_inc_sim", "pt_dec_sim">>,
    flow      |-> <<"ft_inc_sim", "ft_dec_sim">>,
    turbidity |-> <<"turb_inc_sim", "turb_dec_sim">>,
    level     |-> <<"level_inc_sim", "level_dec_sim">> ]

\* run_scenario, lines 362-391: each scenario's statements in order, a
\* write_coil(name, False) or a loop of `count` pulse_coil(name) calls.
Scenarios ==
  [ normal_startup |->
      << [kind |-> "write", name |-> "emergency_button", count |-> 1],
         [kind |-> "pulse", name |-> "start_button", count |-> 1] >>,
    low_pressure |->
      << [kind |-> "pulse", name |-> "pt_dec_sim", count |-> 8] >>,
    high_turbidity |->
      << [kind |-> "pulse", name |-> "turb_inc_sim", count |-> 8] >>,
    multiple_faults |->
      << [kind |-> "pulse", name |-> "pt_dec_sim", count |-> 8],
         [kind |-> "pulse", name |-> "ft_dec_sim", count |-> 6],
         [kind |-> "pulse", name |-> "turb_inc_sim", count |-> 10] >> ]

\* read_coils(count=24) and read_holding_registers(0, 4): the lengths asked for.
CoilCount == 24
RegisterCount == 4

\* Python's {} : the dict with no key.
EmptyDict == [k \in {} |-> 0]

\* dict.get(key, default)
Get(d, key, default) == IF key \in DOMAIN d THEN d[key] ELSE default

\* ------------------------------------------------------------ inputs drawn

\* Names a caller passes to write_coil / pulse_coil ("bogus" is in no registry).
CoilInputs == {"pt_inc_sim", "bogus"}
\* param and direction a caller passes to adjust_parameter.
ParamInputs == {"pressure", "bogus"}
DirectionInputs == {"up", "down", "sideways"}
\* The scenario a caller passes to run_scenario.
ScenarioInputs == DOMAIN Scenarios \cup {"bogus"}
\* What the controller's four holding registers hold during one behaviour:
\* all readings normal, only the pressure low, and all four rules triggered.
RegisterProfiles ==
  { <<50, 25, 5, 75>>, <<15, 25, 5, 75>>, <<85, 5, 20, 10>> }

\* ----------------------------------------------------------------- threads

\* PLCWebController objects.
Controllers == 1 .. MaxCtl
\* Thread objects created by start_monitoring, in creation order.
Loops == 1 .. MaxLoops
\* Request-handler threads calling the controllers' methods, numbered after
\* the loop threads.
Callers == {MaxLoops + 1, MaxLoops + 2}
Threads == Loops \cup Callers
\* monitor_thread = None
None == 0

VARIABLES
  created,           \* created[c]: the object c has been constructed
  connected,         \* self.connected
  monitoring,        \* self.monitoring
  monitor_thread,    \* self.monitor_thread: a thread of Loops, or None
  last_data,         \* self.last_data: {} or the last snapshot built
  plcCoils,          \* the controller-side coils, by address
  plcRegs,           \* the controller-side holding registers, by address
  pc,                \* each thread's position
  loc,               \* each thread's local variables
  calls,             \* method calls made so far by the handler threads
  plc_controller,    \* the module's global plc_controller: an object or None
  now,               \* what datetime.now() returns
  registered,        \* the web clients socketio.emit broadcasts to
  inbox              \* inbox[k]: the timestamps of the last two 'plc_data'
                     \* events delivered to client k, oldest first

\* The web layer's state.
web == << plc_controller, now, registered, inbox >>

vars == << created, connected, monitoring, monitor_thread,
           last_data, plcCoils, plcRegs, pc, loc, calls, web >>

\* A thread's locals before a call: `self`, the arguments and the locals of
\* the methods on its stack.
\*   op         the method the handler called ("none": no call in progress)
\*   hist       the methods the handler has called so far, in order
\*   name, value   write_coil's arguments
\*   phase      where pulse_coil is: "set" (line 185), "clear" (line 187)
\*   wret       what the last write_coil returned
\*   param, direction, steps, i   adjust_parameter's arguments and loop index
\*   coils, registers, data       get_system_data's locals
\*   failed     an exchange of this get_system_data call returned {} for an
\*              error (lines 148, 159, 170, 181)
\*   jt         the thread stop_monitoring joins
\*   scenario, sstep, k   run_scenario's argument, the step of the scenario
\*              it is at and the iterations of that step's loop behind it
\*   log        the write_coil and pulse_coil calls run_scenario has made
\*   wfail      a write_coil made for run_scenario has returned False
\*   wrote      the controllers run_scenario has sent a write to
\*   ret        what the call returned: "True", "False", "None", "data",
\*              or "raised" for an exception
Locals(c) ==
  [ self |-> c, op |-> "none", hist |-> << >>, name |-> "", value |-> FALSE,
    phase |-> "none", wret |-> FALSE, param |-> "", direction |-> "",
    steps |-> 0, i |-> 0, coils |-> EmptyDict, registers |-> EmptyDict,
    data |-> EmptyDict, failed |-> FALSE, jt |-> None, scenario |-> "",
    sstep |-> 0, k |-> 0, log |-> << >>, wfail |-> FALSE, wrote |-> {},
    ret |-> "none" ]

Self(t) == loc[t].self

\* Positions at which a thread has sent a request on the client session and
\* has not yet got its response.
ExchangePCs == {"wc_wait", "rc_wait", "rr_wait", "cn_wait"}

\* The threads with an exchange outstanding on controller c's session.
InFlight(c) == {t \in Threads : Self(t) = c /\ pc[t] \in ExchangePCs}

\* A loop thread that has been started and has not returned from _monitor_loop.
Alive(l) == pc[l] \notin {"unborn", "created", "done"}
AliveLoops(c) == {l \in Loops : Self(l) = c /\ Alive(l)}

\* -------------------------------------------------------------- alert rules

\* As Alerts, with the flow rule raised at the threshold too (<= for <).
AlertsFlowInclusive(registers) ==
  LET a1 == IF Get(registers, "pressure_value", 50) < thresholds.pt_low
               \/ Get(registers, "pressure_value", 50) > thresholds.pt_high
            THEN <<"Pressure Alert">> ELSE << >>
      a2 == IF Get(registers, "flow_value", 25) <= thresholds.ft_low
            THEN Append(a1, "Flow Alert") ELSE a1
      a3 == IF Get(registers, "turbidity_value", 5) > thresholds.turb_high
            THEN Append(a2, "Turbidity Alert") ELSE a2
      a4 == IF Get(registers, "water_level", 75) < thresholds.level_low
            THEN Append(a3, "Low Level Alert") ELSE a3
  IN a4

\* get_system_data, lines 218-230: the alerts list, built rule by rule.
Alerts(registers) ==
  LET a1 == IF Get(registers, "pressure_value", 50) < thresholds.pt_low
               \/ Get(registers, "pressure_value", 50) > thresholds.pt_high
            THEN <<"Pressure Alert">> ELSE << >>
      a2 == IF Get(registers, "flow_value", 25) < thresholds.ft_low
            THEN Append(a1, "Flow Alert") ELSE a1
      a3 == IF Get(registers, "turbidity_value", 5) > thresholds.turb_high
            THEN Append(a2, "Turbidity Alert") ELSE a2
      a4 == IF Get(registers, "water_level", 75) < thresholds.level_low
            THEN Append(a3, "Low Level Alert") ELSE a3
  IN a4

\* As SystemFault, with the comparison off by one.
SystemFaultOverOne(alerts) == Len(alerts) > 1

\* line 238: 'system_fault': len(alerts) > 0
SystemFault(alerts) == Len(alerts) > 0

\* lines 232-239: the snapshot dict.
Snapshot(c, coils, registers) ==
  [ timestamp |-> now,
    connected |-> connected[c], coils |-> coils, registers |-> registers,
    alerts |-> Alerts(registers),
    system_fault |-> SystemFault(Alerts(registers)) ]

\* lines 150-156: the response's bits projected onto the coil names.
CoilStatus(bits, len) ==
  [ n \in {m \in DOMAIN coil_map : coil_map[m] < len} |-> bits[coil_map[n]] ]

\* lines 172-178: the response's registers projected onto the register names.
RegisterValues(registers, len) ==
  [ n \in {m \in DOMAIN register_map : register_map[m] < len}
      |-> registers[register_map[n]] ]

\* ------------------------------------------------------------------- Init

\* A representative reading on each side of every threshold, the least and
\* the greatest value of a 16-bit register.
Readings == {0, 9, 10, 15, 16, 19, 20, 80, 81, 65535}

\* The handler thread numbered first.
Handler == MaxLoops + 1

\* The controller-side registers hold the profile p.
PlcRegsAre(p) == plcRegs = [a \in 0 .. (RegisterCount - 1) |-> p[a + 1]]

\* No web client is there and the clock stands at its first reading.
NoClients ==
  /\ now = 0
  /\ registered = {}
  /\ inbox = [k \in Callers |-> << >>]

\* Controller 1 exists and is the global plc_controller (line 444); nothing
\* has been read, written or called.
Fresh ==
  /\ created = [c \in Controllers |-> c = 1]
  /\ last_data = [c \in Controllers |-> EmptyDict]
  /\ plcCoils = [a \in 0 .. (CoilCount - 1) |-> FALSE]
  /\ calls = 0
  /\ plc_controller = 1
  /\ NoClients

\* A constructed controller (lines 27-34).
Constructed ==
  /\ connected = [c \in Controllers |-> FALSE]
  /\ monitoring = [c \in Controllers |-> FALSE]
  /\ monitor_thread = [c \in Controllers |-> None]
  /\ pc = [t \in Threads |-> IF t \in Loops THEN "unborn" ELSE "idle"]
  /\ loc = [t \in Threads |-> Locals(1)]

\* The controller after connect() has returned True (lines 84-99).
Connected ==
  /\ connected = [c \in Controllers |-> c = 1]
  /\ monitoring = [c \in Controllers |-> FALSE]
  /\ monitor_thread = [c \in Controllers |-> None]
  /\ pc = [t \in Threads |-> IF t \in Loops THEN "unborn" ELSE "idle"]
  /\ loc = [t \in Threads |-> Locals(1)]

\* The controller of lines 444-446: connect() returned True and
\* start_monitoring() has started the first loop thread.
AutoConnected ==
  /\ connected = [c \in Controllers |-> c = 1]
  /\ monitoring = [c \in Controllers |-> c = 1]
  /\ monitor_thread = [c \in Controllers |-> IF c = 1 THEN 1 ELSE None]
  /\ pc = [t \in Threads |->
             IF t \in Loops THEN (IF t = 1 THEN "while" ELSE "unborn")
             ELSE "idle"]
  /\ loc = [t \in Threads |-> Locals(1)]

Init ==
  /\ Fresh
  /\ Constructed \/ Connected \/ AutoConnected
  /\ \E p \in RegisterProfiles : PlcRegsAre(p)

\* A connected controller whose monitoring was not started, all readings
\* normal.
InitAct ==
  /\ Fresh
  /\ Connected
  /\ PlcRegsAre(<<50, 25, 5, 75>>)

\* A handler inside get_system_data at line 217, the two reads behind it:
\* read_coils gave {} or every coil, read_registers gave the first len
\* registers of a response drawn from Readings (len = 0: {}), and
\* self.connected holds or not.
InitAlert ==
  /\ Fresh
  /\ \E r \in [0 .. (RegisterCount - 1) -> Readings] :
       /\ plcRegs = r
       /\ \E len \in 0 .. RegisterCount, full \in BOOLEAN :
            loc = [t \in Threads |->
                     IF t = Handler
                       THEN [Locals(1) EXCEPT
                               !.op = "get_system_data",
                               !.coils = IF full
                                           THEN CoilStatus(plcCoils, CoilCount)
                                           ELSE EmptyDict,
                               !.registers = RegisterValues(r, len)]
                       ELSE Locals(1)]
  /\ \E b \in BOOLEAN : connected = [c \in Controllers |-> b /\ c = 1]
  /\ monitoring = [c \in Controllers |-> FALSE]
  /\ monitor_thread = [c \in Controllers |-> None]
  /\ pc = [t \in Threads |->
             IF t \in Loops THEN "unborn"
             ELSE IF t = Handler THEN "build" ELSE "idle"]

\* --------------------------------------------------------- step bookkeeping

\* Thread t moves to position p with locals l.
Goto(t, p, l) ==
  /\ pc' = [pc EXCEPT ![t] = p]
  /\ loc' = [loc EXCEPT ![t] = l]

\* ------------------------------------------------------- read_coils (139-159)

\* lines 141-145: not connected gives {} with no exchange; otherwise the
\* request goes out on the session.
read_coils_send(t) ==
  /\ pc[t] = "rc_check"
  /\ IF ~connected[Self(t)]
       THEN Goto(t, "rr_check", [loc[t] EXCEPT !.coils = EmptyDict])
       ELSE Goto(t, "rc_wait", loc[t])
  /\ UNCHANGED << web, created, connected, monitoring,
                  monitor_thread, last_data, plcCoils, plcRegs, calls >>

\* lines 145-159: the response, an error response or an exception.
read_coils_recv(t) ==
  /\ pc[t] = "rc_wait"
  /\ \E ok \in BOOLEAN :
       Goto(t, "rr_check",
            IF ok THEN [loc[t] EXCEPT !.coils = CoilStatus(plcCoils, CoilCount)]
                  ELSE [loc[t] EXCEPT !.coils = EmptyDict, !.failed = TRUE])
  /\ UNCHANGED << web, created, connected, monitoring,
                  monitor_thread, last_data, plcCoils, plcRegs, calls >>

\* --------------------------------------------------- read_registers (161-181)

\* lines 163-167
read_registers_send(t) ==
  /\ pc[t] = "rr_check"
  /\ IF ~connected[Self(t)]
       THEN Goto(t, "build", [loc[t] EXCEPT !.registers = EmptyDict])
       ELSE Goto(t, "rr_wait", loc[t])
  /\ UNCHANGED << web, created, connected, monitoring,
                  monitor_thread, last_data, plcCoils, plcRegs, calls >>

\* lines 167-181
read_registers_recv(t) ==
  /\ pc[t] = "rr_wait"
  /\ \E ok \in BOOLEAN :
       Goto(t, "build",
            IF ok THEN [loc[t] EXCEPT
                          !.registers = RegisterValues(plcRegs, RegisterCount)]
                  ELSE [loc[t] EXCEPT !.registers = EmptyDict, !.failed = TRUE])
  /\ UNCHANGED << web, created, connected, monitoring,
                  monitor_thread, last_data, plcCoils, plcRegs, calls >>

\* -------------------------------------------------- get_system_data (212-242)

\* lines 217-242: the alerts, the snapshot (which reads self.connected now),
\* self.last_data, and the return to _monitor_loop or to the handler.
get_system_data_build(t) ==
  /\ pc[t] = "build"
  /\ LET data == Snapshot(Self(t), loc[t].coils, loc[t].registers) IN
       /\ last_data' = [last_data EXCEPT ![Self(t)] = data]
       /\ IF t \in Loops
            THEN Goto(t, "emit", [loc[t] EXCEPT !.data = data])
            ELSE Goto(t, "done", [loc[t] EXCEPT !.data = data, !.ret = "data"])
  /\ UNCHANGED << web, created, connected, monitoring,
                  monitor_thread, plcCoils, plcRegs, calls >>

\* --------------------------------------------------- _monitor_loop (263-273)

\* line 265: while self.monitoring and self.connected
monitor_loop_while(l) ==
  /\ l \in Loops
  /\ pc[l] = "while"
  /\ IF monitoring[Self(l)] /\ connected[Self(l)]
       THEN Goto(l, "rc_check", loc[l])
       ELSE Goto(l, "done", loc[l])
  /\ UNCHANGED << web, created, connected, monitoring,
                  monitor_thread, last_data, plcCoils, plcRegs, calls >>

\* Client k's inbox q after the delivery of a snapshot with timestamp ts.
Deliver(q, ts) == IF Len(q) < 2 THEN Append(q, ts) ELSE << q[2], ts >>

\* socketio.emit('plc_data', data) with no recipient named: every registered
\* client gets the event.
Broadcast(data) ==
  inbox' = [k \in Callers |->
              IF k \in registered THEN Deliver(inbox[k], data.timestamp)
                                  ELSE inbox[k]]

\* As monitor_loop_emit, with an exception of socketio.emit ending the loop.
monitor_loop_emit_quits(l) ==
  /\ l \in Loops
  /\ pc[l] = "emit"
  /\ \E raised \in BOOLEAN :
       /\ Goto(l, IF raised THEN "done" ELSE "sleep", Locals(Self(l)))
       /\ IF raised THEN UNCHANGED inbox ELSE Broadcast(loc[l].data)
  /\ UNCHANGED << plc_controller, now, registered, created, connected,
                  monitoring, monitor_thread, last_data, plcCoils, plcRegs,
                  calls >>

\* lines 269-272: socketio.emit publishes the snapshot, or raises and the
\* except clause takes over.
monitor_loop_emit(l) ==
  /\ l \in Loops
  /\ pc[l] = "emit"
  /\ \E raised \in BOOLEAN :
       /\ Goto(l, IF raised THEN "backoff" ELSE "sleep", Locals(Self(l)))
       /\ IF raised THEN UNCHANGED inbox ELSE Broadcast(loc[l].data)
  /\ UNCHANGED << plc_controller, now, registered, created, connected,
                  monitoring, monitor_thread, last_data, plcCoils, plcRegs,
                  calls >>

\* lines 270 and 273: time.sleep(1) or time.sleep(2) ends.
monitor_loop_sleep(l) ==
  /\ l \in Loops
  /\ pc[l] \in {"sleep", "backoff"}
  /\ Goto(l, "while", loc[l])
  /\ UNCHANGED << web, created, connected, monitoring,
                  monitor_thread, last_data, plcCoils, plcRegs, calls >>

\* ------------------------------------------------------------ returns

\* The handler's call returns r (or raises, r = "raised").
Done(l, r) == [pc |-> "done", loc |-> [l EXCEPT !.ret = r]]

Bool(b) == IF b THEN "True" ELSE "False"

\* adjust_parameter, lines 206-210: the next iteration of `for _ in
\* range(steps)` calls pulse_coil(coil, 0.1), which calls write_coil(name,
\* True) at line 185; after the last one, return True.
adjust_parameter_loop(l) ==
  IF l.i < l.steps
    THEN [pc |-> "wc_check",
          loc |-> [l EXCEPT !.i = l.i + 1, !.phase = "set", !.value = TRUE]]
    ELSE Done(l, "True")

\* As adjust_parameter_after_pulse, giving up at the first failed pulse.
adjust_parameter_after_pulse_stops(l, r) ==
  IF r THEN [pc |-> "adj_sleep", loc |-> [l EXCEPT !.phase = "none"]]
       ELSE Done([l EXCEPT !.phase = "none"], "False")

\* lines 207-208: pulse_coil's result is dropped; time.sleep(0.1) follows.
adjust_parameter_after_pulse(l, r) ==
  [pc |-> "adj_sleep", loc |-> [l EXCEPT !.phase = "none"]]

\* An exception leaves the method: connect_plc (lines 303-304) and
\* run_scenario (lines 396-398) catch it and report a failure, elsewhere it
\* reaches the handler.
Raise(l) ==
  IF l.op \in {"connect_plc", "run_scenario"} THEN Done(l, "False")
                                              ELSE Done(l, "raised")

\* As run_scenario_after, with no second iteration of any loop.
run_scenario_after_once(l) ==
  [pc |-> "rs_step",
   loc |-> [l EXCEPT !.phase = "none", !.sstep = l.sstep + 1, !.k = 0]]

\* run_scenario, lines 362-391: a write_coil or pulse_coil call has returned
\* (its result is dropped); the sleep that follows it, then the next
\* iteration or the next statement.
run_scenario_after(l) ==
  LET m == [l EXCEPT !.phase = "none"] IN
  IF l.k + 1 < Scenarios[l.scenario][l.sstep].count
    THEN [pc |-> "rs_step", loc |-> [m EXCEPT !.k = l.k + 1]]
    ELSE [pc |-> "rs_step", loc |-> [m EXCEPT !.sstep = l.sstep + 1, !.k = 0]]

\* pulse_coil returns r (lines 188-189), to adjust_parameter, to
\* run_scenario or to the handler.
pulse_coil_return(l, r) ==
  CASE l.op = "adjust_parameter" -> adjust_parameter_after_pulse(l, r)
    [] l.op = "run_scenario" -> run_scenario_after(l)
    [] OTHER -> Done([l EXCEPT !.phase = "none"], Bool(r))

\* write_coil returns r: to pulse_coil's line 185 (the set write), to its
\* line 187 (the clear write, whose result is dropped), to run_scenario's
\* line 364 or to the handler.
write_coil_return(l, r) ==
  LET m == [l EXCEPT !.wret = r,
                     !.wfail = l.wfail \/ (l.op = "run_scenario" /\ ~r)] IN
  CASE l.phase = "set" ->
         IF r THEN [pc |-> "pulse_sleep", loc |-> m]
              ELSE pulse_coil_return(m, FALSE)
    [] l.phase = "clear" -> pulse_coil_return(m, TRUE)
    [] l.op = "run_scenario" -> run_scenario_after(m)
    [] OTHER -> Done(m, Bool(r))

\* The calls in which disconnect() is made: the handler's own, and those of
\* connect_plc (line 294) and disconnect_plc (line 313).
DisconnectOps == {"disconnect", "connect_plc", "disconnect_plc"}

\* stop_monitoring returns, to disconnect's line 111 or to the handler.
stop_monitoring_return(l) ==
  IF l.op \in DisconnectOps THEN [pc |-> "dc_teardown", loc |-> l]
                            ELSE Done(l, "None")

\* disconnect returns, to connect_plc's line 296, to disconnect_plc's line
\* 314 or to the handler.
disconnect_return(l) ==
  CASE l.op = "connect_plc" -> [pc |-> "cp_new", loc |-> l]
    [] l.op = "disconnect_plc" -> [pc |-> "dp_clear", loc |-> l]
    [] OTHER -> Done(l, "None")

\* connect returns r, to connect_plc's line 298 (which goes on to line 299
\* or reports the failure) or to the handler.
connect_return(l, r) ==
  IF l.op = "connect_plc"
    THEN IF r THEN [pc |-> "cp_start", loc |-> l] ELSE Done(l, "False")
    ELSE Done(l, Bool(r))

\* start_monitoring returns, to connect_plc's line 300 (which reports the
\* success) or to the handler.
start_monitoring_return(l) ==
  IF l.op = "connect_plc" THEN Done(l, "True") ELSE Done(l, "None")

Step(t, n) == Goto(t, n.pc, n.loc)

\* ------------------------------------------------------ write_coil (116-137)

\* As write_coil_send, without the test of the name.
write_coil_send_any(t) ==
  /\ pc[t] = "wc_check"
  /\ IF ~connected[Self(t)]
       THEN Step(t, write_coil_return(loc[t], FALSE))
       ELSE Goto(t, "wc_wait",
                 IF loc[t].op = "run_scenario"
                   THEN [loc[t] EXCEPT !.wrote = loc[t].wrote \cup {Self(t)}]
                   ELSE loc[t])
  /\ UNCHANGED << web, created, connected, monitoring,
                  monitor_thread, last_data, plcCoils, plcRegs, calls >>

\* lines 118-127: not connected, or an unknown name: False with no exchange;
\* otherwise the request goes out on the session.
write_coil_send(t) ==
  /\ pc[t] = "wc_check"
  /\ IF ~connected[Self(t)] \/ loc[t].name \notin DOMAIN coil_map
       THEN Step(t, write_coil_return(loc[t], FALSE))
       ELSE Goto(t, "wc_wait",
                 IF loc[t].op = "run_scenario"
                   THEN [loc[t] EXCEPT !.wrote = loc[t].wrote \cup {Self(t)}]
                   ELSE loc[t])
  /\ UNCHANGED << web, created, connected, monitoring,
                  monitor_thread, last_data, plcCoils, plcRegs, calls >>

\* lines 127-137: the controller sets the coil and answers, or the exchange
\* fails: with an error response or an unsent request the coil is as it was,
\* with a lost answer (an exception on the client's side) it may be set.
write_coil_recv(t) ==
  /\ pc[t] = "wc_wait"
  /\ \E ok \in BOOLEAN, applied \in BOOLEAN :
       /\ ok => applied
       /\ plcCoils' = IF applied
            THEN [plcCoils EXCEPT ![coil_map[loc[t].name]] = loc[t].value]
            ELSE plcCoils
       /\ Step(t, write_coil_return(loc[t], ok))
  /\ UNCHANGED << web, created, connected, monitoring,
                  monitor_thread, last_data, plcRegs, calls >>

\* ------------------------------------------------------ pulse_coil (183-189)

\* As pulse_coil_clear, writing True again.
pulse_coil_clear_sets(t) ==
  /\ pc[t] = "pulse_sleep"
  /\ Goto(t, "wc_check", [loc[t] EXCEPT !.phase = "clear", !.value = TRUE])
  /\ UNCHANGED << web, created, connected, monitoring,
                  monitor_thread, last_data, plcCoils, plcRegs, calls >>

\* lines 186-187: time.sleep(duration) ends; write_coil(name, False).
pulse_coil_clear(t) ==
  /\ pc[t] = "pulse_sleep"
  /\ Goto(t, "wc_check", [loc[t] EXCEPT !.phase = "clear", !.value = FALSE])
  /\ UNCHANGED << web, created, connected, monitoring,
                  monitor_thread, last_data, plcCoils, plcRegs, calls >>

\* ------------------------------------------------ adjust_parameter (191-210)

\* lines 200-206: an unknown param returns False; otherwise the coil is the
\* increment coil for 'up' and the decrement coil for anything else, and the
\* loop starts.
adjust_parameter_check(t) ==
  /\ pc[t] = "adj_check"
  /\ IF loc[t].param \notin DOMAIN param_map
       THEN Step(t, Done(loc[t], "False"))
       ELSE Step(t, adjust_parameter_loop(
              [loc[t] EXCEPT !.name = IF loc[t].direction = "up"
                                        THEN param_map[loc[t].param][1]
                                        ELSE param_map[loc[t].param][2]]))
  /\ UNCHANGED << web, created, connected, monitoring,
                  monitor_thread, last_data, plcCoils, plcRegs, calls >>

\* line 208: time.sleep(0.1) ends; the loop goes on or the method returns.
adjust_parameter_sleep(t) ==
  /\ pc[t] = "adj_sleep"
  /\ Step(t, adjust_parameter_loop(loc[t]))
  /\ UNCHANGED << web, created, connected, monitoring,
                  monitor_thread, last_data, plcCoils, plcRegs, calls >>

\* ------------------------------------------------ start_monitoring (244-253)

\* lines 246-247
start_monitoring_check(t) ==
  /\ pc[t] = "sm_check"
  /\ IF monitoring[Self(t)] THEN Step(t, start_monitoring_return(loc[t]))
                            ELSE Goto(t, "sm_set", loc[t])
  /\ UNCHANGED << web, created, connected, monitoring,
                  monitor_thread, last_data, plcCoils, plcRegs, calls >>

\* line 249
start_monitoring_set(t) ==
  /\ pc[t] = "sm_set"
  /\ monitoring' = [monitoring EXCEPT ![Self(t)] = TRUE]
  /\ Goto(t, "sm_new", loc[t])
  /\ UNCHANGED << web, created, connected, monitor_thread,
                  last_data, plcCoils, plcRegs, calls >>

Unborn == {l \in Loops : pc[l] = "unborn"}
Min(S) == CHOOSE x \in S : \A y \in S : x <= y

\* lines 250-251: a new Thread object, not started yet.
start_monitoring_new(t) ==
  /\ pc[t] = "sm_new"
  /\ Unborn # {}
  /\ LET l == Min(Unborn) IN
       /\ monitor_thread' = [monitor_thread EXCEPT ![Self(t)] = l]
       /\ pc' = [pc EXCEPT ![t] = "sm_start", ![l] = "created"]
       /\ loc' = [loc EXCEPT ![l] = Locals(Self(t))]
  /\ UNCHANGED << web, created, connected, monitoring,
                  last_data, plcCoils, plcRegs, calls >>

\* line 252: self.monitor_thread.start() starts the thread the attribute
\* names now; starting a started thread raises RuntimeError.
start_monitoring_start(t) ==
  /\ pc[t] = "sm_start"
  /\ LET l == monitor_thread[Self(t)] IN
       IF pc[l] = "created"
         THEN /\ pc' = [pc EXCEPT ![t] = start_monitoring_return(loc[t]).pc,
                                  ![l] = "while"]
              /\ loc' = [loc EXCEPT ![t] = start_monitoring_return(loc[t]).loc]
         ELSE Step(t, Raise(loc[t]))
  /\ UNCHANGED << web, created, connected, monitoring,
                  monitor_thread, last_data, plcCoils, plcRegs, calls >>

\* ------------------------------------------------- stop_monitoring (255-261)

\* line 257
stop_monitoring_check(t) ==
  /\ pc[t] = "st_check"
  /\ IF monitoring[Self(t)] THEN Goto(t, "st_set", loc[t])
                            ELSE Step(t, stop_monitoring_return(loc[t]))
  /\ UNCHANGED << web, created, connected, monitoring,
                  monitor_thread, last_data, plcCoils, plcRegs, calls >>

\* line 258
stop_monitoring_set(t) ==
  /\ pc[t] = "st_set"
  /\ monitoring' = [monitoring EXCEPT ![Self(t)] = FALSE]
  /\ Goto(t, "st_thread", loc[t])
  /\ UNCHANGED << web, created, connected, monitor_thread,
                  last_data, plcCoils, plcRegs, calls >>

\* lines 259-260: the thread to join is the one the attribute names now.
stop_monitoring_thread(t) ==
  /\ pc[t] = "st_thread"
  /\ IF monitor_thread[Self(t)] # None
       THEN Goto(t, "st_join", [loc[t] EXCEPT !.jt = monitor_thread[Self(t)]])
       ELSE Step(t, stop_monitoring_return(loc[t]))
  /\ UNCHANGED << web, created, connected, monitoring,
                  monitor_thread, last_data, plcCoils, plcRegs, calls >>

\* Where a loop thread stays for a second or more: time.sleep(1),
\* time.sleep(2), and an exchange waiting for its response.
BlockedPCs == {"sleep", "backoff", "rc_wait", "rr_wait"}

\* line 260: join(timeout=1) returns when the thread has ended, or after one
\* second with the thread still blocked; joining a thread that was never
\* started raises RuntimeError.
stop_monitoring_join(t) ==
  /\ pc[t] = "st_join"
  /\ \/ /\ pc[loc[t].jt] = "created"
        /\ Step(t, Raise(loc[t]))
     \/ /\ pc[loc[t].jt] = "done" \/ pc[loc[t].jt] \in BlockedPCs
        /\ Step(t, stop_monitoring_return(loc[t]))
  /\ UNCHANGED << web, created, connected, monitoring,
                  monitor_thread, last_data, plcCoils, plcRegs, calls >>

\* --------------------------------------------------------- connect (80-105)

\* lines 83-86: self.connected = True under pymodbus 3, and what
\* client.connect() returns, True or False, under pymodbus 2 (the import at
\* lines 15-20 decides which; the behaviours of 3 are among those of 2).
connect_begin(t) ==
  /\ pc[t] = "cn_begin"
  /\ \E r \in BOOLEAN :
       connected' = [connected EXCEPT ![Self(t)] = r]
  /\ Goto(t, "cn_if", loc[t])
  /\ UNCHANGED << web, created, monitoring, monitor_thread,
                  last_data, plcCoils, plcRegs, calls >>

\* lines 88-92 and 100-102: self.connected is read again; when it holds
\* the test read goes out on the session.
connect_if(t) ==
  /\ pc[t] = "cn_if"
  /\ IF connected[Self(t)] THEN Goto(t, "cn_wait", loc[t])
                           ELSE Step(t, connect_return(loc[t], FALSE))
  /\ UNCHANGED << web, created, connected, monitoring,
                  monitor_thread, last_data, plcCoils, plcRegs, calls >>

\* lines 92-99: whatever the test read gives, connect returns True.
connect_recv(t) ==
  /\ pc[t] = "cn_wait"
  /\ Step(t, connect_return(loc[t], TRUE))
  /\ UNCHANGED << web, created, connected, monitoring,
                  monitor_thread, last_data, plcCoils, plcRegs, calls >>

\* ------------------------------------------------------ disconnect (107-114)

\* lines 109-110: when connected, stop_monitoring() is called first.
disconnect_check(t) ==
  /\ pc[t] = "dc_check"
  /\ IF connected[Self(t)] THEN Goto(t, "st_check", loc[t])
                           ELSE Step(t, disconnect_return(loc[t]))
  /\ UNCHANGED << web, created, connected, monitoring,
                  monitor_thread, last_data, plcCoils, plcRegs, calls >>

\* lines 111-113: the client is closed (under pymodbus 2) and the flag cleared.
disconnect_teardown(t) ==
  /\ pc[t] = "dc_teardown"
  /\ connected' = [connected EXCEPT ![Self(t)] = FALSE]
  /\ Step(t, disconnect_return(loc[t]))
  /\ UNCHANGED << web, created, monitoring, monitor_thread,
                  last_data, plcCoils, plcRegs, calls >>

\* ---------------------------------------------------- run_scenario (356-398)

\* lines 358-393: no controller, or a scenario that is none of the four,
\* returns False; otherwise the scenario's first statement is next.
run_scenario_check(t) ==
  /\ pc[t] = "rs_check"
  /\ IF plc_controller = None \/ loc[t].scenario \notin DOMAIN Scenarios
       THEN Step(t, Done(loc[t], "False"))
       ELSE Goto(t, "rs_step", [loc[t] EXCEPT !.sstep = 1, !.k = 0])
  /\ UNCHANGED << web, created, connected, monitoring,
                  monitor_thread, last_data, plcCoils, plcRegs, calls >>

\* The next statement of the scenario (after the sleep that follows the one
\* before): the global plc_controller is read and its write_coil(name, False)
\* or pulse_coil(name) is called; with the global None the AttributeError is
\* caught at line 396. After the last statement, return True (line 395).
run_scenario_step(t) ==
  /\ pc[t] = "rs_step"
  /\ IF loc[t].sstep > Len(Scenarios[loc[t].scenario])
       THEN Step(t, Done(loc[t], "True"))
       ELSE IF plc_controller = None
         THEN Step(t, Raise(loc[t]))
         ELSE LET st == Scenarios[loc[t].scenario][loc[t].sstep] IN
              Goto(t, "wc_check",
                   [loc[t] EXCEPT
                      !.self = plc_controller,
                      !.name = st.name,
                      !.value = (st.kind = "pulse"),
                      !.phase = IF st.kind = "pulse" THEN "set" ELSE "none",
                      !.log = Append(loc[t].log, << st.kind, st.name >>)])
  /\ UNCHANGED << web, created, connected, monitoring,
                  monitor_thread, last_data, plcCoils, plcRegs, calls >>

\* ----------------------------------------------------- connect_plc (284-305)

\* line 293: if plc_controller
connect_plc_check(t) ==
  /\ pc[t] = "cp_check"
  /\ Goto(t, IF plc_controller # None THEN "cp_disc" ELSE "cp_new", loc[t])
  /\ UNCHANGED << web, created, connected, monitoring,
                  monitor_thread, last_data, plcCoils, plcRegs, calls >>

\* The global plc_controller is read for a method call on it: thread t goes
\* on to the method's first position with that object as self, or, with the
\* global None, the AttributeError is raised.
MethodOfGlobal(t, entry) ==
  /\ IF plc_controller = None
       THEN Step(t, Raise(loc[t]))
       ELSE Goto(t, entry, [loc[t] EXCEPT !.self = plc_controller])
  /\ UNCHANGED << web, created, connected, monitoring,
                  monitor_thread, last_data, plcCoils, plcRegs, calls >>

\* line 294: plc_controller.disconnect()
connect_plc_disconnect(t) ==
  /\ pc[t] = "cp_disc"
  /\ MethodOfGlobal(t, "dc_check")

NotCreated == {c \in Controllers : ~created[c]}

\* line 296: plc_controller = PLCWebController(host, port)
connect_plc_new(t) ==
  /\ pc[t] = "cp_new"
  /\ NotCreated # {}
  /\ LET c == Min(NotCreated) IN
       /\ created' = [created EXCEPT ![c] = TRUE]
       /\ plc_controller' = c
  /\ Goto(t, "cp_connect", loc[t])
  /\ UNCHANGED << now, registered, inbox, connected, monitoring,
                  monitor_thread, last_data, plcCoils, plcRegs, calls >>

\* line 298: plc_controller.connect()
connect_plc_connect(t) ==
  /\ pc[t] = "cp_connect"
  /\ MethodOfGlobal(t, "cn_begin")

\* line 299: plc_controller.start_monitoring()
connect_plc_start(t) ==
  /\ pc[t] = "cp_start"
  /\ MethodOfGlobal(t, "sm_check")

\* -------------------------------------------------- disconnect_plc (307-316)

\* line 312: if plc_controller; with none, the success is reported at once.
disconnect_plc_check(t) ==
  /\ pc[t] = "dp_check"
  /\ IF plc_controller # None THEN Goto(t, "dp_disc", loc[t])
                              ELSE Step(t, Done(loc[t], "True"))
  /\ UNCHANGED << web, created, connected, monitoring,
                  monitor_thread, last_data, plcCoils, plcRegs, calls >>

\* line 313: plc_controller.disconnect()
disconnect_plc_disconnect(t) ==
  /\ pc[t] = "dp_disc"
  /\ MethodOfGlobal(t, "dc_check")

\* lines 314-316: plc_controller = None, and the success is reported.
disconnect_plc_clear(t) ==
  /\ pc[t] = "dp_clear"
  /\ plc_controller' = None
  /\ Step(t, Done(loc[t], "True"))
  /\ UNCHANGED << now, registered, inbox, created, connected, monitoring,
                  monitor_thread, last_data, plcCoils, plcRegs, calls >>

\* ------------------------------------------ get_system_data route (318-324)

\* line 321: if plc_controller and plc_controller.connected
system_data_check(t) ==
  /\ pc[t] = "sd_check"
  /\ IF plc_controller # None /\ connected[plc_controller]
       THEN Goto(t, "sd_call", loc[t])
       ELSE Step(t, Done(loc[t], "error"))
  /\ UNCHANGED << web, created, connected, monitoring,
                  monitor_thread, last_data, plcCoils, plcRegs, calls >>

\* line 322: plc_controller.get_system_data()
system_data_call(t) ==
  /\ pc[t] = "sd_call"
  /\ MethodOfGlobal(t, "rc_check")

\* -------------------------------------------------- handle_connect (401-406)

\* line 405: if plc_controller and plc_controller.last_data
handle_connect_check(t) ==
  /\ pc[t] = "hc_check"
  /\ IF plc_controller # None /\ DOMAIN last_data[plc_controller] # {}
       THEN Goto(t, "hc_read", loc[t])
       ELSE Step(t, Done(loc[t], "None"))
  /\ UNCHANGED << web, created, connected, monitoring,
                  monitor_thread, last_data, plcCoils, plcRegs, calls >>

\* line 406, the argument: plc_controller.last_data is read again.
handle_connect_read(t) ==
  /\ pc[t] = "hc_read"
  /\ IF plc_controller = None
       THEN Step(t, Raise(loc[t]))
       ELSE Goto(t, "hc_emit",
                 [loc[t] EXCEPT !.data = last_data[plc_controller]])
  /\ UNCHANGED << web, created, connected, monitoring,
                  monitor_thread, last_data, plcCoils, plcRegs, calls >>

\* line 406, the call: emit('plc_data', ...) inside a handler goes to the
\* client whose event is being handled.
handle_connect_emit(t) ==
  /\ pc[t] = "hc_emit"
  /\ inbox' = [inbox EXCEPT ![t] = Deliver(inbox[t], loc[t].data.timestamp)]
  /\ Step(t, Done(loc[t], "None"))
  /\ UNCHANGED << plc_controller, now, registered, created, connected,
                  monitoring, monitor_thread, last_data, plcCoils, plcRegs,
                  calls >>

\* ------------------------------------------------------- the handlers' calls

\* The handler threads are alike: a handler takes a call only when every
\* handler numbered before it is busy or has served a call.
FirstFree(t) ==
  \A u \in Callers : u < t => (pc[u] # "idle" \/ loc[u].hist # << >>)

\* Handler t calls a method of controller c: entry is the method's first
\* position, args its arguments.
Call(t, c, op, entry, args) ==
  /\ pc[t] = "idle"
  /\ FirstFree(t)
  /\ calls < MaxCalls
  /\ created[c]
  /\ calls' = calls + 1
  /\ Goto(t, entry, [args EXCEPT !.op = op, !.hist = Append(loc[t].hist, op)])
  /\ UNCHANGED << web, created, connected, monitoring,
                  monitor_thread, last_data, plcCoils, plcRegs >>

call_write_coil(t, c) ==
  \E name \in CoilInputs, value \in BOOLEAN :
    Call(t, c, "write_coil", "wc_check",
         [Locals(c) EXCEPT !.name = name, !.value = value])

\* pulse_coil's line 185 calls write_coil(name, True).
call_pulse_coil(t, c) ==
  \E name \in CoilInputs :
    Call(t, c, "pulse_coil", "wc_check",
         [Locals(c) EXCEPT !.name = name, !.value = TRUE, !.phase = "set"])

call_adjust_parameter(t, c) ==
  \E param \in ParamInputs, direction \in DirectionInputs,
     steps \in 0 .. MaxSteps :
    Call(t, c, "adjust_parameter", "adj_check",
         [Locals(c) EXCEPT !.param = param, !.direction = direction,
                           !.steps = steps])

call_get_system_data(t, c) ==
  Call(t, c, "get_system_data", "rc_check", Locals(c))

\* The calls under way that may still create a thread object.
StartsPending ==
  {u \in Callers : /\ loc[u].op \in {"start_monitoring", "connect_plc"}
                   /\ pc[u] \notin {"sm_start", "done"}}

\* A thread object is left for every start_monitoring call under way.
call_start_monitoring(t, c) ==
  /\ Cardinality(Unborn) > Cardinality(StartsPending)
  /\ Call(t, c, "start_monitoring", "sm_check", Locals(c))

call_stop_monitoring(t, c) ==
  Call(t, c, "stop_monitoring", "st_check", Locals(c))

call_connect(t, c) ==
  Call(t, c, "connect", "cn_begin", Locals(c))

call_disconnect(t, c) ==
  Call(t, c, "disconnect", "dc_check", Locals(c))

\* Handler t serves a request or an event of the web layer: entry is the
\* first position of its function, args its arguments.
WebCall(t, op, entry, args) ==
  /\ pc[t] = "idle"
  /\ FirstFree(t)
  /\ calls < MaxCalls
  /\ calls' = calls + 1
  /\ Goto(t, entry, [args EXCEPT !.op = op, !.hist = Append(loc[t].hist, op)])
  /\ UNCHANGED << created, connected, monitoring,
                  monitor_thread, last_data, plcCoils, plcRegs >>

\* control_system's line 349 calls run_scenario; one scenario runs at a time.
call_run_scenario(t) ==
  /\ \A u \in Callers : loc[u].op # "run_scenario"
  /\ \E scenario \in ScenarioInputs :
       WebCall(t, "run_scenario", "rs_check",
               [Locals(None) EXCEPT !.scenario = scenario])
  /\ UNCHANGED web

\* POST /api/connect: an object and a thread object are left for every
\* request under way.
call_connect_plc(t) ==
  /\ Cardinality(Unborn) > Cardinality(StartsPending)
  /\ Cardinality(NotCreated) >
       Cardinality({u \in Callers : pc[u] \in {"cp_check", "cp_disc", "cp_new"}
                                     \/ ( /\ loc[u].op = "connect_plc"
                                          /\ pc[u] \notin {"cp_connect",
                                               "cp_start", "cn_begin", "cn_if",
                                               "cn_wait", "sm_check", "sm_set",
                                               "sm_new", "sm_start", "done"} )})
  /\ WebCall(t, "connect_plc", "cp_check", Locals(None))
  /\ UNCHANGED web

\* POST /api/disconnect
call_disconnect_plc(t) ==
  /\ WebCall(t, "disconnect_plc", "dp_check", Locals(None))
  /\ UNCHANGED web

\* GET /api/system_data
call_system_data(t) ==
  /\ WebCall(t, "system_data", "sd_check", Locals(None))
  /\ UNCHANGED web

\* A web client connects: the server registers it for the broadcasts and
\* runs handle_connect for it.
call_handle_connect(t) ==
  /\ t \notin registered
  /\ registered' = registered \cup {t}
  /\ WebCall(t, "handle_connect", "hc_check", Locals(None))
  /\ UNCHANGED << plc_controller, now, inbox >>

\* The call has returned (or raised) and the handler is free again.
Return(t) ==
  /\ pc[t] = "done"
  /\ Goto(t, "idle", [Locals(Self(t)) EXCEPT !.hist = loc[t].hist])
  /\ UNCHANGED << web, created, connected, monitoring,
                  monitor_thread, last_data, plcCoils, plcRegs, calls >>

\* ------------------------------------------------------------------- Next

\* get_system_data's steps, taken by a loop thread or a handler.
ReadSteps ==
  \E t \in Threads :
    \/ read_coils_send(t)
    \/ read_coils_recv(t)
    \/ read_registers_send(t)
    \/ read_registers_recv(t)
    \/ get_system_data_build(t)

LoopSteps ==
  \E l \in Loops :
    \/ monitor_loop_while(l)
    \/ monitor_loop_emit(l)
    \/ monitor_loop_sleep(l)

\* disconnect, with the first test of the stop_monitoring it calls.
DisconnectSteps ==
  \E t \in Callers :
    \/ disconnect_check(t)
    \/ stop_monitoring_check(t)
    \/ disconnect_teardown(t)
    \/ Return(t)

\* The rest of stop_monitoring, taken when the monitoring is on.
StopSteps ==
  \E t \in Callers :
    \/ stop_monitoring_set(t)
    \/ stop_monitoring_thread(t)
    \/ stop_monitoring_join(t)

StartSteps ==
  \E t \in Callers :
    \/ start_monitoring_check(t)
    \/ start_monitoring_set(t)
    \/ start_monitoring_new(t)
    \/ start_monitoring_start(t)
    \/ connect_begin(t)
    \/ connect_if(t)
    \/ connect_recv(t)

WriteSteps ==
  \E t \in Callers :
    \/ write_coil_send(t)
    \/ write_coil_recv(t)
    \/ pulse_coil_clear(t)
    \/ adjust_parameter_check(t)
    \/ adjust_parameter_sleep(t)

\* The controller's life cycle and its state reads: handlers connect,
\* disconnect, start and stop the monitoring and read the state on demand.
Next ==
  \/ ReadSteps
  \/ LoopSteps
  \/ DisconnectSteps
  \/ StopSteps
  \/ StartSteps
  \/ \E t \in Callers, c \in Controllers :
       \/ call_get_system_data(t, c)
       \/ call_start_monitoring(t, c)
       \/ call_stop_monitoring(t, c)
       \/ call_connect(t, c)
       \/ call_disconnect(t, c)

Spec == Init /\ [][Next]_vars

\* Actuation: handlers write, pulse and adjust, read the state on demand
\* and disconnect, on a connected controller.
NextAct ==
  \/ ReadSteps
  \/ DisconnectSteps
  \/ WriteSteps
  \/ \E t \in Callers, c \in Controllers :
       \/ call_write_coil(t, c)
       \/ call_pulse_coil(t, c)
       \/ call_adjust_parameter(t, c)
       \/ call_get_system_data(t, c)
       \/ call_disconnect(t, c)

SpecAct == InitAct /\ [][NextAct]_vars

\* The alert rules and the snapshot on their own: get_system_data from line
\* 217 on, for every pair of read results.
NextAlert ==
  \E t \in Callers :
    \/ get_system_data_build(t)
    \/ Return(t)

SpecAlert == InitAlert /\ [][NextAlert]_vars

\* The monitor loop of the controller of lines 444-446, with handlers that
\* stop the monitoring or disconnect.
InitLoop ==
  /\ Fresh
  /\ AutoConnected
  /\ PlcRegsAre(<<50, 25, 5, 75>>)

NextLoop ==
  \/ ReadSteps
  \/ LoopSteps
  \/ DisconnectSteps
  \/ StopSteps
  \/ \E t \in Callers, c \in Controllers :
       \/ call_stop_monitoring(t, c)
       \/ call_disconnect(t, c)

\* One step of loop thread l, in _monitor_loop or in the get_system_data it
\* calls.
LoopStep(l) ==
  \/ monitor_loop_while(l)
  \/ read_coils_send(l)
  \/ read_coils_recv(l)
  \/ read_registers_send(l)
  \/ read_registers_recv(l)
  \/ get_system_data_build(l)
  \/ monitor_loop_emit(l)
  \/ monitor_loop_sleep(l)

\* A started thread keeps being scheduled, its sleeps end and its exchanges
\* return or time out (WF); a socketio.emit that is tried again and again
\* does not raise every time (SF).
LoopFairness ==
  \A l \in Loops :
    /\ WF_vars(LoopStep(l))
    /\ SF_vars(monitor_loop_emit(l) /\ pc'[l] = "sleep")

SpecLoop == InitLoop /\ [][NextLoop]_vars /\ LoopFairness

ScenarioSteps ==
  \E t \in Callers :
    \/ run_scenario_check(t)
    \/ run_scenario_step(t)

DisconnectPlcSteps ==
  \E t \in Callers :
    \/ disconnect_plc_check(t)
    \/ disconnect_plc_disconnect(t)
    \/ disconnect_plc_clear(t)

\* The calls that write coils.
ActuationOps == {"write_coil", "pulse_coil", "adjust_parameter", "run_scenario"}

\* Scenarios and actuation on the connected controller that is the global
\* plc_controller, one actuation call at a time, with /api/disconnect
\* requests coming in at any moment.
NextScn ==
  \/ WriteSteps
  \/ ScenarioSteps
  \/ DisconnectSteps
  \/ DisconnectPlcSteps
  \/ \E t \in Callers : call_disconnect_plc(t)
  \/ /\ \A u \in Callers : loc[u].op \notin ActuationOps
     /\ \E t \in Callers :
          \/ call_run_scenario(t)
          \/ \E c \in Controllers :
               \/ call_write_coil(t, c)
               \/ call_pulse_coil(t, c)
               \/ call_adjust_parameter(t, c)

SpecScn == InitAct /\ [][NextScn]_vars

\* Time passes: datetime.now() returns a later reading from now on.
Tick ==
  /\ now < MaxTime
  /\ now' = now + 1
  /\ UNCHANGED << plc_controller, registered, inbox, created, connected,
                  monitoring, monitor_thread, last_data, plcCoils, plcRegs,
                  pc, loc, calls >>

HandleConnectSteps ==
  \E t \in Callers :
    \/ handle_connect_check(t)
    \/ handle_connect_read(t)
    \/ handle_connect_emit(t)

SystemDataSteps ==
  \E t \in Callers :
    \/ system_data_check(t)
    \/ system_data_call(t)

\* The snapshots' way to the web clients: the monitor loop of the
\* auto-connected controller publishes, clients connect and GET
\* /api/system_data requests read the state on demand, while time passes.
NextSub ==
  \/ ReadSteps
  \/ LoopSteps
  \/ HandleConnectSteps
  \/ SystemDataSteps
  \/ Tick
  \/ \E t \in Callers :
       \/ call_handle_connect(t)
       \/ call_system_data(t)
       \/ Return(t)

SpecSub == InitLoop /\ [][NextSub]_vars

\* The process before any request: the module was imported by a server (the
\* global is None, no object exists), or it was run as the main program and
\* the auto-connect of lines 444-446 has succeeded or failed.
InitWeb ==
  /\ PlcRegsAre(<<50, 25, 5, 75>>)
  /\ \/ Fresh /\ (Constructed \/ AutoConnected)
     \/ /\ Constructed
        /\ created = [c \in Controllers |-> FALSE]
        /\ last_data = [c \in Controllers |-> EmptyDict]
        /\ plcCoils = [a \in 0 .. (CoilCount - 1) |-> FALSE]
        /\ calls = 0
        /\ plc_controller = None
        /\ NoClients

ConnectPlcSteps ==
  \E t \in Callers :
    \/ connect_plc_check(t)
    \/ connect_plc_disconnect(t)
    \/ connect_plc_new(t)
    \/ connect_plc_connect(t)
    \/ connect_plc_start(t)

\* write_coil and pulse_coil, as run_scenario calls them.
PulseSteps ==
  \E t \in Callers :
    \/ write_coil_send(t)
    \/ write_coil_recv(t)
    \/ pulse_coil_clear(t)

\* The web layer: /api/connect and /api/disconnect requests, served on
\* concurrent threads, replace and clear the global plc_controller while
\* the monitor loops run.
NextWeb ==
  \/ ReadSteps
  \/ LoopSteps
  \/ DisconnectSteps
  \/ StopSteps
  \/ StartSteps
  \/ ConnectPlcSteps
  \/ DisconnectPlcSteps
  \/ \E t \in Callers :
       \/ call_connect_plc(t)
       \/ call_disconnect_plc(t)

SpecWeb == InitWeb /\ [][NextWeb]_vars

\* A scenario run beside /api/connect and /api/disconnect requests.  Of the
\* monitor loops only the test of the while condition is followed: a loop
\* that finds both flags false ends, which lets stop_monitoring's join
\* return, and one that finds them true starts a read that is not followed
\* further (the loops write last_data alone, which none of these handlers
\* reads).
NextRun ==
  \/ \E l \in Loops : monitor_loop_while(l)
  \/ DisconnectSteps
  \/ StopSteps
  \/ StartSteps
  \/ ConnectPlcSteps
  \/ DisconnectPlcSteps
  \/ ScenarioSteps
  \/ PulseSteps
  \/ \E t \in Callers :
       \/ call_connect_plc(t)
       \/ call_disconnect_plc(t)
       \/ call_run_scenario(t)

SpecRun == InitWeb /\ [][NextRun]_vars

TypeOK ==
  /\ connected \in [Controllers -> BOOLEAN]
  /\ monitoring \in [Controllers -> BOOLEAN]
  /\ monitor_thread \in [Controllers -> Loops \cup {None}]
  /\ calls \in 0 .. MaxCalls
  /\ plc_controller \in Controllers \cup {None}
  /\ registered \subseteq Callers

\* ----------------------------------------------------------------- claims

Range(q) == {q[k] : k \in 1 .. Len(q)}

\* The snapshots at hand in a state: the one each thread has just built
\* and each controller's last_data.
Built(t) == pc[t] \in {"emit", "done"} /\ DOMAIN loc[t].data # {}
Stored(c) == DOMAIN last_data[c] # {}

\* C1: at most one protocol exchange is outstanding on a controller's
\* session at any time, whichever threads (monitor loop, handlers) make them.
C1_OneExchangeAtATime ==
  \A c \in Controllers : Cardinality(InFlight(c)) <= 1

\* Handler t has made the calls h, in that order, and no other handler has
\* called anything.
OnlyCalls(t, h) ==
  /\ loc[t].hist = h
  /\ \A u \in Callers \ {t} : loc[u].hist = << >>

\* C2: on a connected controller whose loop is running, when one handler has
\* called stop_monitoring() and then at once start_monitoring(), and no other
\* handler has called anything, exactly one monitor loop thread is alive on
\* start_monitoring's return.
C2_RestartLeavesOneLoop ==
  \A t \in Callers :
    ( /\ pc[t] = "done"
      /\ OnlyCalls(t, << "stop_monitoring", "start_monitoring" >>)
      /\ loc[t].ret = "None"
      /\ connected[Self(t)] )
    => Cardinality(AliveLoops(Self(t))) = 1

\* Positions of a loop thread inside a cycle: between the test of the while
\* condition and the end of socketio.emit.
MidCycle == {"rc_check", "rc_wait", "rr_check", "rr_wait", "build", "emit"}

\* C3: disconnect() waits for the loop's current cycle to finish before it
\* tears the transport down: when disconnect() is the only call made, then in
\* the step that closes the session and clears self.connected no loop thread
\* of the controller has an exchange outstanding or is anywhere else inside
\* a cycle (from where it would go on to read or to publish a snapshot).
C3_DisconnectWaitsForCycle ==
  [][ \A t \in Callers :
        ( /\ pc[t] = "dc_teardown"
          /\ pc'[t] = "done"
          /\ OnlyCalls(t, << "disconnect" >>) )
        => \A l \in Loops : Self(l) = Self(t) => pc[l] \notin MidCycle ]_vars

\* C4: pulse_coil returns True only if both its set write and its clear
\* write returned True.
C4_PulseSuccessMeansBothWrites ==
  \A t \in Callers :
    (pc[t] = "done" /\ loc[t].op = "pulse_coil" /\ loc[t].ret = "True")
    => loc[t].wret

\* C5: the step in which a pulse's clear write succeeds leaves the pulsed
\* coil false on the controller, and a clear write is only ever begun from
\* the dwell that follows a successful set write of the same pulse.
C5_PulseEndsFalse ==
  [][ \A t \in Callers :
        /\ ( /\ pc[t] = "wc_wait"
             /\ loc[t].phase = "clear"
             /\ pc'[t] # "wc_wait"
             /\ loc'[t].wret )
           => ~plcCoils'[coil_map[loc[t].name]]
        /\ (loc[t].phase # "clear" /\ loc'[t].phase = "clear")
           => ( /\ pc[t] = "pulse_sleep"
                /\ loc[t].phase = "set"
                /\ loc[t].wret
                /\ loc'[t].name = loc[t].name ) ]_vars

\* C5's case: a pulse_coil call has returned, both writes having succeeded.
C5_Witness ==
  \E t \in Callers :
    /\ pc[t] = "done"
    /\ loc[t].op = "pulse_coil"
    /\ loc[t].ret = "True"
    /\ loc[t].wret
    /\ ~plcCoils[coil_map[loc[t].name]]

\* C6: a snapshot built after one of its two read exchanges failed is
\* disconnected-shaped: connected false, both maps and the alerts empty.
C6_FailedReadGivesDisconnectedShape ==
  \A t \in Threads :
    (Built(t) /\ loc[t].failed)
    => ( /\ ~loc[t].data.connected
         /\ DOMAIN loc[t].data.coils = {}
         /\ DOMAIN loc[t].data.registers = {}
         /\ loc[t].data.alerts = << >> )

\* C7: as long as the handlers have called nothing but disconnect() and
\* get_system_data(), every snapshot with connected false has empty maps and
\* no alerts, and every key of a snapshot's maps is a name of the registry.
C7_DisconnectedSnapshotIsEmpty ==
  \A c \in Controllers :
    ( /\ Stored(c)
      /\ \A u \in Callers :
           Range(loc[u].hist) \subseteq {"disconnect", "get_system_data"} )
    =>
      /\ ~last_data[c].connected =>
           ( /\ DOMAIN last_data[c].coils = {}
             /\ DOMAIN last_data[c].registers = {}
             /\ last_data[c].alerts = << >> )
      /\ DOMAIN last_data[c].coils \subseteq DOMAIN coil_map
      /\ DOMAIN last_data[c].registers \subseteq DOMAIN register_map

\* The four alert names in the order of the rules.
AlertOrder ==
  << "Pressure Alert", "Flow Alert", "Turbidity Alert", "Low Level Alert" >>

\* The reference rules for the readings r and the alert list a: each alert
\* is raised exactly when its reading is there and out of bounds (a missing
\* reading raises nothing), and the alerts raised stand in the order of the
\* rules, each once.
ReferenceAlerts(r, a) ==
  /\ "Pressure Alert" \in Range(a) <=>
       ( /\ "pressure_value" \in DOMAIN r
         /\ \/ r["pressure_value"] < thresholds.pt_low
            \/ r["pressure_value"] > thresholds.pt_high )
  /\ "Flow Alert" \in Range(a) <=>
       ("flow_value" \in DOMAIN r /\ r["flow_value"] < thresholds.ft_low)
  /\ "Turbidity Alert" \in Range(a) <=>
       ( /\ "turbidity_value" \in DOMAIN r
         /\ r["turbidity_value"] > thresholds.turb_high )
  /\ "Low Level Alert" \in Range(a) <=>
       ("water_level" \in DOMAIN r /\ r["water_level"] < thresholds.level_low)
  /\ a = SelectSeq(AlertOrder, LAMBDA x : x \in Range(a))

\* C8: the alerts of every snapshot get_system_data builds follow the
\* reference rules for the registers it read: pressure below pt_low or above
\* pt_high, flow below ft_low, turbidity above turb_high, level below
\* level_low, in that order, several at once where several apply, and none
\* for a reading that is missing.
C8_AlertsFollowRules ==
  \A t \in Callers :
    Built(t) => ReferenceAlerts(loc[t].registers, loc[t].data.alerts)

\* C8's case: two alerts at once, from a response with the last two readings
\* missing.
C8_Witness ==
  \E t \in Callers :
    /\ Built(t)
    /\ loc[t].data.alerts = << "Pressure Alert", "Flow Alert" >>
    /\ DOMAIN loc[t].registers = {"pressure_value", "flow_value"}

\* C9: in every snapshot, system_fault is true exactly when the alerts list
\* is not empty.
C9_FaultIffAlerts ==
  /\ \A t \in Threads :
       Built(t) => (loc[t].data.system_fault <=> loc[t].data.alerts # << >>)
  /\ \A c \in Controllers :
       Stored(c) => (last_data[c].system_fault <=> last_data[c].alerts # << >>)

\* C9's case: a stored snapshot with exactly one alert and the fault flag.
C9_Witness ==
  \E c \in Controllers :
    /\ Stored(c)
    /\ last_data[c].alerts = << "Low Level Alert" >>
    /\ last_data[c].system_fault

\* C10: while adjust_parameter(param, direction, steps) runs with a known
\* param and direction 'up' or 'down', every write it makes is on the
\* param's increment coil for 'up' and its decrement coil for 'down', and
\* when it returns it has issued exactly `steps` pulses and returns True,
\* whatever the pulses returned.
C10_AdjustIssuesStepsPulses ==
  \A t \in Callers :
    ( /\ loc[t].op = "adjust_parameter"
      /\ loc[t].param \in DOMAIN param_map
      /\ loc[t].direction \in {"up", "down"} )
    => /\ pc[t] = "done" => (loc[t].i = loc[t].steps /\ loc[t].ret = "True")
       /\ pc[t] \in {"wc_check", "wc_wait", "pulse_sleep", "adj_sleep"} =>
            /\ loc[t].i \in 1 .. loc[t].steps
            /\ loc[t].name =
                 param_map[loc[t].param][IF loc[t].direction = "up"
                                           THEN 1 ELSE 2]

\* C10's case: the last pulse of a 'down' adjustment of several steps is
\* being written after a write of the pulse before it failed.
C10_Witness ==
  \E t \in Callers :
    /\ loc[t].op = "adjust_parameter"
    /\ loc[t].direction = "down"
    /\ loc[t].steps = MaxSteps
    /\ loc[t].i = MaxSteps
    /\ pc[t] = "wc_wait"
    /\ loc[t].phase = "set"
    /\ ~loc[t].wret

\* Positions inside write_coil and pulse_coil: a write is being made or a
\* pulse is in its dwell.
WritePCs == {"wc_check", "wc_wait", "pulse_sleep"}

\* C11: adjust_parameter with a param outside param_map, or with a direction
\* that is neither 'up' nor 'down', makes no write and returns a failure.
C11_AdjustRejectsOtherValues ==
  \A t \in Callers :
    ( /\ loc[t].op = "adjust_parameter"
      /\ \/ loc[t].param \notin DOMAIN param_map
         \/ loc[t].direction \notin {"up", "down"} )
    => /\ pc[t] \notin WritePCs
       /\ pc[t] = "done" => loc[t].ret = "False"

\* No handler is inside a call on controller c.
Quiet(c) == \A t \in Callers : Self(t) = c => pc[t] \in {"idle", "done"}

\* C15: on a connected controller, once the handlers have made nothing but
\* start_monitoring() calls, one after another or at the same time, and all
\* of them have returned, exactly one monitor loop thread is running.
C15_StartLeavesOneLoop ==
  \A c \in Controllers :
    ( /\ connected[c]
      /\ Quiet(c)
      /\ \E t \in Callers : loc[t].hist # << >>
      /\ \A t \in Callers :
           Self(t) = c /\ Range(loc[t].hist) \subseteq {"start_monitoring"} )
    => Cardinality(AliveLoops(c)) = 1

\* The calls of method op made so far by the handlers.
CallsOf(op) ==
  { <<t, k>> \in Callers \X (1 .. MaxCalls) :
      k <= Len(loc[t].hist) /\ loc[t].hist[k] = op }

\* C20: a controller that no call is working on, with monitoring true and
\* connected true, has a monitor loop thread alive (stated for the
\* behaviours in which connect() is called at most once).
C20_MonitoringMeansLoop ==
  \A c \in Controllers :
    ( /\ created[c]
      /\ Quiet(c)
      /\ monitoring[c]
      /\ connected[c]
      /\ Cardinality(CallsOf("connect")) <= 1 )
    => AliveLoops(c) # {}

\* A handler has called stop_monitoring() or disconnect().
StopCalled ==
  \E t \in Callers :
    Range(loc[t].hist) \cap {"stop_monitoring", "disconnect"} # {}

\* Loop thread l is in a cycle in which a read has failed, or in the except
\* clause after an exception.
CycleFailed(l) ==
  \/ pc[l] = "backoff"
  \/ pc[l] \in {"rr_check", "rr_wait", "build", "emit"} /\ loc[l].failed

Rep(x, n) == [j \in 1 .. n |-> x]

\* The calls each built-in scenario is to make, in order.
ExpectedCalls ==
  [ normal_startup |->
      << << "write", "emergency_button" >>, << "pulse", "start_button" >> >>,
    low_pressure |-> Rep(<< "pulse", "pt_dec_sim" >>, 8),
    high_turbidity |-> Rep(<< "pulse", "turb_inc_sim" >>, 8),
    multiple_faults |->
      Rep(<< "pulse", "pt_dec_sim" >>, 8)
        \o Rep(<< "pulse", "ft_dec_sim" >>, 6)
        \o Rep(<< "pulse", "turb_inc_sim" >>, 10) ]

IsPrefix(p, q) == Len(p) <= Len(q) /\ p = SubSeq(q, 1, Len(p))

\* Handler t is in (or back from) a run of one of the built-in scenarios.
InScenario(t) ==
  loc[t].op = "run_scenario" /\ loc[t].scenario \in DOMAIN ExpectedCalls

\* A /api/disconnect request has come in.
DisconnectPlcCalled ==
  \E u \in Callers : "disconnect_plc" \in Range(loc[u].hist)

C13_ScenarioResultReflectsFailures ==
  \A t \in Callers :
    (pc[t] = "done" /\ loc[t].op = "run_scenario" /\ loc[t].ret = "True")
    => ~loc[t].wfail

\* Handler t's call was given a name that is in no registry: a coil name, a
\* parameter or a scenario.
Rejected(t) ==
  \/ loc[t].op \in {"write_coil", "pulse_coil"}
       /\ loc[t].name \notin DOMAIN coil_map
  \/ loc[t].op = "adjust_parameter" /\ loc[t].param \notin DOMAIN param_map
  \/ loc[t].op = "run_scenario" /\ loc[t].scenario \notin DOMAIN Scenarios

\* C14: a call given an unknown coil name, parameter or scenario never has
\* an exchange outstanding and returns a failure, and none of its steps
\* changes a controller's attributes, the coils or the global plc_controller.
C14_UnknownNamesRejected ==
  /\ [] \A t \in Callers :
          Rejected(t) =>
            /\ pc[t] \notin ExchangePCs
            /\ pc[t] = "done" => loc[t].ret = "False"
  /\ [][ \A t \in Callers :
           (Rejected(t) /\ pc'[t] # pc[t]) =>
             UNCHANGED << created, connected, monitoring, monitor_thread,
                          last_data, plcCoils, plcRegs, plc_controller >>
       ]_vars

\* C14's case: an unknown coil name has been turned down, and after it an
\* unknown scenario, on a connected controller.
C14_Witness ==
  /\ plc_controller # None
  /\ connected[plc_controller]
  /\ \E t \in Callers :
       /\ loc[t].hist = << "pulse_coil", "run_scenario" >>
       /\ loc[t].scenario = "bogus"
       /\ pc[t] = "done"
       /\ loc[t].ret = "False"
       /\ plcCoils = [a \in 0 .. (CoilCount - 1) |-> FALSE]

\* C17: a web client never receives a snapshot produced earlier than the one
\* it received just before: of the last two 'plc_data' events delivered to
\* it, the second carries no earlier timestamp than the first.
C17_SnapshotsInProductionOrder ==
  \A k \in registered :
    Len(inbox[k]) = 2 => inbox[k][1] <= inbox[k][2]

\* The loop threads that are alive and whose controller has monitoring and
\* connected true, so that they go on with further cycles.
RunningLoops ==
  {l \in Loops : Alive(l) /\ monitoring[Self(l)] /\ connected[Self(l)]}

\* C18: when no request is being served, at most one controller object is
\* connected, none but the global plc_controller is, and at most one
\* monitor loop is running in the process.
C18_OneLiveController ==
  (\A t \in Callers : pc[t] = "idle") =>
    /\ \A c \in Controllers :
         (created[c] /\ connected[c]) => c = plc_controller
    /\ Cardinality(RunningLoops) <= 1

\* C19: all the writes a scenario run sends go to one controller object.
C19_ScenarioOnOneController ==
  \A t \in Callers :
    loc[t].op = "run_scenario" => Cardinality(loc[t].wrote) <= 1

====
